---- MODULE Spec2Model ----
(***************************************************************************)
(* Las Vegas golf scoring: the hole resolver (calculateHoleResult,         *)
(* utils/golfLogic.ts) and the round store (useGameStore,                  *)
(* store/gameStore.ts).                                                    *)
(*                                                                         *)
(* The repository holds two revisions of both files.  The model follows    *)
(* the current one: the resolver with pushCount and appliedMultiplier      *)
(* (the one utils/golfLogic.test.ts exercises and ScoreInputScreen         *)
(* imports calculateCurrentHoleRate from) and the persisted store that     *)
(* keeps gameStatus across completeHole calls.                             *)
(***************************************************************************)
EXTENDS Integers, Sequences, FiniteSets, TLC

VARIABLES
    players,             \* GameState.players: sequence of Player
    currentHole,         \* GameState.currentHole
    gameStatus,          \* GameState.gameStatus
    history,             \* GameState.history: sequence of HoleResult
    settings,            \* GameState.settings
    savedRounds,         \* GameState.savedRounds: sequence of RoundResult
    nextHoleMultiplier,  \* GameState.nextHoleMultiplier
    params,              \* argument of a direct calculateHoleResult call
    result,              \* what that call returned (NoResult before it)
    calls                \* completeHole calls made so far

vars == <<players, currentHole, gameStatus, history, settings,
          savedRounds, nextHoleMultiplier, params, result, calls>>

----------------------------------------------------------------------------
(* Bounds of the model *)

MaxStroke == 3
MaxPushCount == 1
MaxCarry == 2

----------------------------------------------------------------------------
(* Small helpers *)

Min(a, b) == IF a < b THEN a ELSE b
Max(a, b) == IF a > b THEN a ELSE b

RECURSIVE SumOver(_, _)
\* sum of f[x] over the finite set S
SumOver(f, S) ==
    IF S = {} THEN 0
    ELSE LET x == CHOOSE y \in S : TRUE
         IN  f[x] + SumOver(f, S \ {x})

----------------------------------------------------------------------------
(* utils/golfLogic.ts *)

\* variant: the digits are taken in the order of the pair
getRawTeamScore_AsGiven(scores, p1Id, p2Id) ==
    LET s1 == scores[p1Id].score
        s2 == scores[p2Id].score
    IN  [val |-> s1 * 10 + s2, low |-> s1, high |-> s2]

\* getRawTeamScore: { val: low * 10 + high, low, high }
getRawTeamScore(scores, p1Id, p2Id) ==
    LET s1   == scores[p1Id].score
        s2   == scores[p2Id].score
        low  == Min(s1, s2)
        high == Max(s1, s2)
    IN  [val |-> low * 10 + high, low |-> low, high |-> high]

\* hasBirdie: either member of the pair has the isBirdie flag
hasBirdie(scores, ids) == scores[ids[1]].isBirdie \/ scores[ids[2]].isBirdie

\* variant: the rate is twice the count, also when the count is 0
finalRateOf_NoFloor(count) == count * 2

\* the rate of a hole: 1 when nothing counts, twice the count otherwise
finalRateOf(count) == IF count = 0 THEN 1 ELSE count * 2

\* variant: every birdie adds one to the count
rateCount_PerBirdie(scores, currentCarryOverMultiplier) ==
    LET carryOverCount == Max(0, currentCarryOverMultiplier - 1)
        totalPushCount == SumOver([id \in DOMAIN scores |-> scores[id].pushCount],
                                  DOMAIN scores)
        birdies        == Cardinality({id \in DOMAIN scores : scores[id].isBirdie})
    IN  carryOverCount + totalPushCount + birdies

\* step 4 of calculateHoleResult: carry-over, pushes and birdie in one count
rateCount(scores, currentCarryOverMultiplier) ==
    LET carryOverCount == Max(0, currentCarryOverMultiplier - 1)
        totalPushCount == SumOver([id \in DOMAIN scores |-> scores[id].pushCount],
                                  DOMAIN scores)
        hasAnyBirdie   == \E id \in DOMAIN scores : scores[id].isBirdie
    IN  carryOverCount + totalPushCount + (IF hasAnyBirdie THEN 1 ELSE 0)

\* the final score of a team: its digits are reversed when the opponent birdied
teamFinalScore(raw, opponentHasBirdie) ==
    IF opponentHasBirdie THEN raw.high * 10 + raw.low ELSE raw.val

\* variant: a team's own birdie reverses its own digits
teamFinalScores_OwnBirdie(scores, teamA_Ids, teamB_Ids) ==
    LET teamA_Raw == getRawTeamScore(scores, teamA_Ids[1], teamA_Ids[2])
        teamB_Raw == getRawTeamScore(scores, teamB_Ids[1], teamB_Ids[2])
    IN  [A |-> teamFinalScore(teamA_Raw, hasBirdie(scores, teamA_Ids)),
         B |-> teamFinalScore(teamB_Raw, hasBirdie(scores, teamB_Ids))]

\* step 2 of calculateHoleResult: both final scores of a hole
teamFinalScores(scores, teamA_Ids, teamB_Ids) ==
    LET teamA_Raw == getRawTeamScore(scores, teamA_Ids[1], teamA_Ids[2])
        teamB_Raw == getRawTeamScore(scores, teamB_Ids[1], teamB_Ids[2])
    IN  [A |-> teamFinalScore(teamA_Raw, hasBirdie(scores, teamB_Ids)),
         B |-> teamFinalScore(teamB_Raw, hasBirdie(scores, teamA_Ids))]

\* variant: the running multiplier is handed on unchanged by a drawn hole
nextMultiplierOf_NoEscalation(isDraw, currentCarryOverMultiplier) ==
    IF isDraw THEN currentCarryOverMultiplier ELSE 1

\* variant: a decided hole leaves the multiplier where it was
nextMultiplierOf_KeepOnWin(isDraw, currentCarryOverMultiplier) ==
    IF isDraw THEN currentCarryOverMultiplier + 1 ELSE currentCarryOverMultiplier

\* the carry-over multiplier handed to the next hole
nextMultiplierOf(isDraw, currentCarryOverMultiplier) ==
    IF isDraw THEN currentCarryOverMultiplier + 1 ELSE 1

\* variant: equal final scores go to team A
winnerOf_TieToA(teamA_FinalScore, teamB_FinalScore) ==
    IF teamA_FinalScore <= teamB_FinalScore THEN "A" ELSE "B"

\* step 3 of calculateHoleResult: the strictly lower final score wins
winnerOf(teamA_FinalScore, teamB_FinalScore) ==
    IF teamA_FinalScore < teamB_FinalScore THEN "A"
    ELSE IF teamB_FinalScore < teamA_FinalScore THEN "B"
    ELSE "draw"

\* variant: each winner collects from both losers
pointsOf_WinnersDouble(id, winningTeamIds, losingTeamIds, finalPoints) ==
    IF id \in losingTeamIds THEN 0 - finalPoints
    ELSE IF id \in winningTeamIds THEN 2 * finalPoints
    ELSE 0

\* variant: the losers are never written
pointsOf_LosersZero(id, winningTeamIds, losingTeamIds, finalPoints) ==
    IF id \in winningTeamIds THEN finalPoints ELSE 0

\* step 5 of calculateHoleResult: every id starts at 0, then the winners are
\* written, then the losers
pointsOf(id, winningTeamIds, losingTeamIds, finalPoints) ==
    IF id \in losingTeamIds THEN 0 - finalPoints
    ELSE IF id \in winningTeamIds THEN finalPoints
    ELSE 0

\* variant: the birdie flags are taken from the strokes and the par
calculateHoleResult_BirdieFromPar(holeNumber, par, scores, teamA_Ids, teamB_Ids, currentCarryOverMultiplier) ==
    LET flagged          == [id \in DOMAIN scores |->
                               [scores[id] EXCEPT !.isBirdie = scores[id].score < par]]
        final            == teamFinalScores(flagged, teamA_Ids, teamB_Ids)
        winner           == winnerOf(final.A, final.B)
        isDraw           == winner = "draw"
        diff             == IF winner = "A" THEN final.B - final.A
                            ELSE IF winner = "B" THEN final.A - final.B
                            ELSE 0
        teamA_Set        == {teamA_Ids[1], teamA_Ids[2]}
        teamB_Set        == {teamB_Ids[1], teamB_Ids[2]}
        winningTeamIds   == IF winner = "A" THEN teamA_Set
                            ELSE IF winner = "B" THEN teamB_Set ELSE {}
        losingTeamIds    == IF winner = "A" THEN teamB_Set
                            ELSE IF winner = "B" THEN teamA_Set ELSE {}
        finalRate        == finalRateOf(rateCount(flagged, currentCarryOverMultiplier))
        finalPoints      == diff * finalRate
    IN  [holeNumber          |-> holeNumber,
         par                 |-> par,
         scores              |-> scores,
         teamA_Ids           |-> teamA_Ids,
         teamB_Ids           |-> teamB_Ids,
         carryOverMultiplier |-> currentCarryOverMultiplier,
         isDraw              |-> isDraw,
         appliedMultiplier   |-> finalRate,
         pointsResult        |-> [id \in teamA_Set \cup teamB_Set |->
                                    pointsOf(id, winningTeamIds, losingTeamIds, finalPoints)],
         nextHoleMultiplier  |-> nextMultiplierOf(isDraw, currentCarryOverMultiplier)]

calculateHoleResult(holeNumber, par, scores, teamA_Ids, teamB_Ids, currentCarryOverMultiplier) ==
    LET final            == teamFinalScores(scores, teamA_Ids, teamB_Ids)
        teamA_FinalScore == final.A
        teamB_FinalScore == final.B
        winner           == winnerOf(teamA_FinalScore, teamB_FinalScore)
        isDraw           == winner = "draw"
        diff             == IF winner = "A" THEN teamB_FinalScore - teamA_FinalScore
                            ELSE IF winner = "B" THEN teamA_FinalScore - teamB_FinalScore
                            ELSE 0
        teamA_Set        == {teamA_Ids[1], teamA_Ids[2]}
        teamB_Set        == {teamB_Ids[1], teamB_Ids[2]}
        winningTeamIds   == IF winner = "A" THEN teamA_Set
                            ELSE IF winner = "B" THEN teamB_Set ELSE {}
        losingTeamIds    == IF winner = "A" THEN teamB_Set
                            ELSE IF winner = "B" THEN teamA_Set ELSE {}
        finalRate        == finalRateOf(rateCount(scores, currentCarryOverMultiplier))
        finalPoints      == diff * finalRate
        pointsResult     == [id \in teamA_Set \cup teamB_Set |->
                               pointsOf(id, winningTeamIds, losingTeamIds, finalPoints)]
    IN  [holeNumber          |-> holeNumber,
         par                 |-> par,
         scores              |-> scores,
         teamA_Ids           |-> teamA_Ids,
         teamB_Ids           |-> teamB_Ids,
         carryOverMultiplier |-> currentCarryOverMultiplier,
         isDraw              |-> isDraw,
         appliedMultiplier   |-> finalRate,
         pointsResult        |-> pointsResult,
         nextHoleMultiplier  |-> nextMultiplierOf(isDraw, currentCarryOverMultiplier)]

----------------------------------------------------------------------------
(* store/gameStore.ts: INITIAL_STATE *)

PlayerIds == {"p1", "p2", "p3", "p4"}

INITIAL_PLAYERS ==
    << [id |-> "p1", name |-> "Player A", pushUsageCount |-> [front9 |-> 0, back9 |-> 0]],
       [id |-> "p2", name |-> "Player B", pushUsageCount |-> [front9 |-> 0, back9 |-> 0]],
       [id |-> "p3", name |-> "Player C", pushUsageCount |-> [front9 |-> 0, back9 |-> 0]],
       [id |-> "p4", name |-> "Player D", pushUsageCount |-> [front9 |-> 0, back9 |-> 0]] >>

INITIAL_SETTINGS ==
    [rate |-> 10, maxPushCountPerHalf |-> 2, language |-> "ja", matchName |-> ""]

StoreInit ==
    /\ players = INITIAL_PLAYERS
    /\ currentHole = 1
    /\ gameStatus = "playing"
    /\ history = << >>
    /\ settings = INITIAL_SETTINGS
    /\ savedRounds = << >>
    /\ nextHoleMultiplier = 1
    /\ calls = 0

----------------------------------------------------------------------------
(* Direct calls of the resolver: the arguments are drawn at the start, the *)
(* call is one step.                                                       *)

NoResult == [none |-> TRUE]
NoParams == [none |-> TRUE]

\* the three ways to split the four players into two pairs
TeamSplits ==
    { << <<"p1", "p2">>, <<"p3", "p4">> >>,
      << <<"p1", "p3">>, <<"p2", "p4">> >>,
      << <<"p1", "p4">>, <<"p2", "p3">> >> }

ScoreInputs ==
    [score : 1..MaxStroke, isBirdie : BOOLEAN, pushCount : 0..MaxPushCount]

ResolverParams ==
    [holeNumber : {1}, par : {4},
     scores : [PlayerIds -> ScoreInputs],
     teams : TeamSplits,
     currentCarryOverMultiplier : 1..MaxCarry]

Resolve ==
    /\ result = NoResult
    /\ result' = calculateHoleResult(params.holeNumber, params.par, params.scores,
                                     params.teams[1], params.teams[2],
                                     params.currentCarryOverMultiplier)
    /\ UNCHANGED <<params, players, currentHole, gameStatus, history, settings,
                   savedRounds, nextHoleMultiplier, calls>>

ResolverInit ==
    /\ StoreInit
    /\ params \in ResolverParams
    /\ result = NoResult

ResolverNext == Resolve

SpecResolver == ResolverInit /\ [][ResolverNext]_vars

----------------------------------------------------------------------------
(* store/gameStore.ts: the actions of useGameStore *)

\* the bound of the round model: completeHole calls
MaxCalls == 3

LastHole == 18
FrontNineLast == 9

RECURSIVE InsertByHole(_, _)
\* one step of the sort by holeNumber: h put before the first later hole
InsertByHole(sorted, h) ==
    IF sorted = << >> THEN <<h>>
    ELSE IF h.holeNumber < Head(sorted).holeNumber THEN <<h>> \o sorted
    ELSE <<Head(sorted)>> \o InsertByHole(Tail(sorted), h)

RECURSIVE SortByHole(_)
\* newHistory.sort((a, b) => a.holeNumber - b.holeNumber), a stable sort
SortByHole(seq) ==
    IF seq = << >> THEN << >>
    ELSE InsertByHole(SortByHole(SubSeq(seq, 1, Len(seq) - 1)), seq[Len(seq)])

\* history.findIndex(h => h.holeNumber === holeNumber), 0 when there is none
findIndex(hist, holeNumber) ==
    IF \E i \in 1..Len(hist) : hist[i].holeNumber = holeNumber
    THEN CHOOSE i \in 1..Len(hist) :
            /\ hist[i].holeNumber = holeNumber
            /\ \A j \in 1..(i - 1) : hist[j].holeNumber # holeNumber
    ELSE 0

\* the push usage of a player in the half the hole belongs to
usedInHalf(p, holeNumber) ==
    IF holeNumber = FrontNineLast THEN p.pushUsageCount.front9
    ELSE p.pushUsageCount.back9

\* variant: the larger of the submitted count and the remaining quota is used
autoPushScores_MaxOfBoth(scores, plrs, maxPush, holeNumber) ==
    IF holeNumber = FrontNineLast \/ holeNumber = LastHole
    THEN [id \in DOMAIN scores |->
            IF \E i \in 1..Len(plrs) :
                  /\ plrs[i].id = id
                  /\ Max(0, maxPush - usedInHalf(plrs[i], holeNumber)) > 0
            THEN LET i == CHOOSE k \in 1..Len(plrs) : plrs[k].id = id
                 IN  [scores[id] EXCEPT !.pushCount =
                         Max(scores[id].pushCount,
                             maxPush - usedInHalf(plrs[i], holeNumber))]
            ELSE scores[id]]
    ELSE scores

\* variant: the override is applied on every hole of a half, the usage of
\* the front nine read on holes 1 to 9
autoPushScores_EveryHole(scores, plrs, maxPush, holeNumber) ==
    LET usedOf(p)  == IF holeNumber <= FrontNineLast THEN p.pushUsageCount.front9
                      ELSE p.pushUsageCount.back9
        forced     == {i \in 1..Len(plrs) : Max(0, maxPush - usedOf(plrs[i])) > 0}
        remainingOf(id) ==
            LET i == CHOOSE k \in forced : plrs[k].id = id
            IN  Max(0, maxPush - usedOf(plrs[i]))
    IN  [id \in DOMAIN scores |->
            IF \E i \in forced : plrs[i].id = id
            THEN [scores[id] EXCEPT !.pushCount = remainingOf(id)]
            ELSE scores[id]]

\* variant: a player with quota left is given one push
autoPushScores_OnePush(scores, plrs, maxPush, holeNumber) ==
    IF holeNumber = FrontNineLast \/ holeNumber = LastHole
    THEN LET forced == {i \in 1..Len(plrs) :
                           Max(0, maxPush - usedInHalf(plrs[i], holeNumber)) > 0}
             ids    == DOMAIN scores \cup {plrs[i].id : i \in forced}
         IN  [id \in ids |->
                IF \E i \in forced : plrs[i].id = id
                THEN IF id \in DOMAIN scores
                     THEN [scores[id] EXCEPT !.pushCount = 1]
                     ELSE [pushCount |-> 1]
                ELSE scores[id]]
    ELSE scores

\* completeHole, step 1: on holes 9 and 18 every player with quota left is
\* given the whole remaining quota as pushCount
autoPushScores(scores, plrs, maxPush, holeNumber) ==
    IF holeNumber = FrontNineLast \/ holeNumber = LastHole
    THEN LET forced == {i \in 1..Len(plrs) :
                           Max(0, maxPush - usedInHalf(plrs[i], holeNumber)) > 0}
             ids    == DOMAIN scores \cup {plrs[i].id : i \in forced}
             remainingOf(id) ==
                 LET i == CHOOSE k \in forced : plrs[k].id = id
                 IN  Max(0, maxPush - usedInHalf(plrs[i], holeNumber))
         IN  [id \in ids |->
                IF \E i \in forced : plrs[i].id = id
                THEN IF id \in DOMAIN scores
                     THEN [scores[id] EXCEPT !.pushCount = remainingOf(id)]
                     ELSE [pushCount |-> remainingOf(id)]
                ELSE scores[id]]
    ELSE scores

\* variant: hole 9 is counted to the back nine
updatePushUsage_Hole9Back(p, finalScores, holeNumber) ==
    LET usedPushCount == IF p.id \in DOMAIN finalScores
                         THEN finalScores[p.id].pushCount ELSE 0
        isFront9      == holeNumber < FrontNineLast
    IN  IF usedPushCount > 0
        THEN [p EXCEPT !.pushUsageCount =
                 [front9 |-> IF isFront9 THEN p.pushUsageCount.front9 + usedPushCount
                             ELSE p.pushUsageCount.front9,
                  back9  |-> IF ~isFront9 THEN p.pushUsageCount.back9 + usedPushCount
                             ELSE p.pushUsageCount.back9]]
        ELSE p

\* variant: the usage of the half is set to the pushes of the hole
updatePushUsage_Overwrite(p, finalScores, holeNumber) ==
    LET usedPushCount == IF p.id \in DOMAIN finalScores
                         THEN finalScores[p.id].pushCount ELSE 0
        isFront9      == holeNumber <= FrontNineLast
    IN  IF usedPushCount > 0
        THEN [p EXCEPT !.pushUsageCount =
                 [front9 |-> IF isFront9 THEN usedPushCount
                             ELSE p.pushUsageCount.front9,
                  back9  |-> IF ~isFront9 THEN usedPushCount
                             ELSE p.pushUsageCount.back9]]
        ELSE p

\* completeHole, step 2: the pushes of the hole are added to the half's usage
updatePushUsage(p, finalScores, holeNumber) ==
    LET usedPushCount == IF p.id \in DOMAIN finalScores
                         THEN finalScores[p.id].pushCount ELSE 0
        isFront9      == holeNumber <= FrontNineLast
    IN  IF usedPushCount > 0
        THEN [p EXCEPT !.pushUsageCount =
                 [front9 |-> IF isFront9 THEN p.pushUsageCount.front9 + usedPushCount
                             ELSE p.pushUsageCount.front9,
                  back9  |-> IF ~isFront9 THEN p.pushUsageCount.back9 + usedPushCount
                             ELSE p.pushUsageCount.back9]]
        ELSE p

\* variant: an edit keeps the points the hole was first resolved to
upsertHistory_KeepOldPoints(hist, newHoleResult) ==
    LET existingIndex == findIndex(hist, newHoleResult.holeNumber)
    IN  IF existingIndex # 0
        THEN [hist EXCEPT ![existingIndex] =
                 [newHoleResult EXCEPT !.pointsResult = hist[existingIndex].pointsResult]]
        ELSE SortByHole(Append(hist, newHoleResult))

\* variant: a new entry is appended and the history left unsorted
upsertHistory_NoSort(hist, newHoleResult) ==
    LET existingIndex == findIndex(hist, newHoleResult.holeNumber)
    IN  IF existingIndex # 0
        THEN [hist EXCEPT ![existingIndex] = newHoleResult]
        ELSE Append(hist, newHoleResult)

\* completeHole: an existing entry is replaced in place, a new one is
\* appended and the history sorted
upsertHistory(hist, newHoleResult) ==
    LET existingIndex == findIndex(hist, newHoleResult.holeNumber)
    IN  IF existingIndex # 0
        THEN [hist EXCEPT ![existingIndex] = newHoleResult]
        ELSE SortByHole(Append(hist, newHoleResult))

\* variant: the cursor is not capped after the last hole
completeHole_NoCap(par, scores, teamA_Ids, teamB_Ids, holeNumber) ==
    LET finalScores    == autoPushScores(scores, players,
                                         settings.maxPushCountPerHalf, holeNumber)
        res            == calculateHoleResult(holeNumber, par, finalScores,
                                              teamA_Ids, teamB_Ids, nextHoleMultiplier)
        updatedPlayers == [i \in 1..Len(players) |->
                              updatePushUsage(players[i], finalScores, holeNumber)]
        newHistory     == upsertHistory(history, res)
    IN  /\ history' = newHistory
        /\ players' = updatedPlayers
        /\ currentHole' = holeNumber + 1
        /\ gameStatus' = IF holeNumber >= LastHole THEN "finished" ELSE gameStatus
        /\ nextHoleMultiplier' = res.nextHoleMultiplier
        /\ UNCHANGED <<settings, savedRounds>>

\* variant: an edit resolves the hole with the carry-over its entry records
completeHole_RecordedCarry(par, scores, teamA_Ids, teamB_Ids, holeNumber) ==
    LET finalScores    == autoPushScores(scores, players,
                                         settings.maxPushCountPerHalf, holeNumber)
        existingIndex  == findIndex(history, holeNumber)
        carry          == IF existingIndex # 0
                          THEN history[existingIndex].carryOverMultiplier
                          ELSE nextHoleMultiplier
        res            == calculateHoleResult(holeNumber, par, finalScores,
                                              teamA_Ids, teamB_Ids, carry)
        updatedPlayers == [i \in 1..Len(players) |->
                              updatePushUsage(players[i], finalScores, holeNumber)]
        newHistory     == upsertHistory(history, res)
    IN  /\ history' = newHistory
        /\ players' = updatedPlayers
        /\ currentHole' = IF holeNumber >= LastHole THEN LastHole ELSE holeNumber + 1
        /\ gameStatus' = IF holeNumber >= LastHole THEN "finished" ELSE gameStatus
        /\ nextHoleMultiplier' = res.nextHoleMultiplier
        /\ UNCHANGED <<settings, savedRounds>>

\* variant: the round ends only past the last hole
completeHole_StrictEnd(par, scores, teamA_Ids, teamB_Ids, holeNumber) ==
    LET finalScores    == autoPushScores(scores, players,
                                         settings.maxPushCountPerHalf, holeNumber)
        res            == calculateHoleResult(holeNumber, par, finalScores,
                                              teamA_Ids, teamB_Ids, nextHoleMultiplier)
        updatedPlayers == [i \in 1..Len(players) |->
                              updatePushUsage(players[i], finalScores, holeNumber)]
        newHistory     == upsertHistory(history, res)
    IN  /\ history' = newHistory
        /\ players' = updatedPlayers
        /\ currentHole' = IF holeNumber > LastHole THEN LastHole ELSE holeNumber + 1
        /\ gameStatus' = IF holeNumber > LastHole THEN "finished" ELSE gameStatus
        /\ nextHoleMultiplier' = res.nextHoleMultiplier
        /\ UNCHANGED <<settings, savedRounds>>

\* variant: every hole before the last puts the round to playing
completeHole_StatusFromHole(par, scores, teamA_Ids, teamB_Ids, holeNumber) ==
    LET finalScores    == autoPushScores(scores, players,
                                         settings.maxPushCountPerHalf, holeNumber)
        res            == calculateHoleResult(holeNumber, par, finalScores,
                                              teamA_Ids, teamB_Ids, nextHoleMultiplier)
        updatedPlayers == [i \in 1..Len(players) |->
                              updatePushUsage(players[i], finalScores, holeNumber)]
        newHistory     == upsertHistory(history, res)
    IN  /\ history' = newHistory
        /\ players' = updatedPlayers
        /\ currentHole' = IF holeNumber >= LastHole THEN LastHole ELSE holeNumber + 1
        /\ gameStatus' = IF holeNumber >= LastHole THEN "finished" ELSE "playing"
        /\ nextHoleMultiplier' = res.nextHoleMultiplier
        /\ UNCHANGED <<settings, savedRounds>>

\* completeHole: forced pushes, the result, the push usage, the entry of
\* the hole, then the cursor, the status and the running multiplier
completeHole(par, scores, teamA_Ids, teamB_Ids, holeNumber) ==
    LET finalScores    == autoPushScores(scores, players,
                                         settings.maxPushCountPerHalf, holeNumber)
        res            == calculateHoleResult(holeNumber, par, finalScores,
                                              teamA_Ids, teamB_Ids, nextHoleMultiplier)
        updatedPlayers == [i \in 1..Len(players) |->
                              updatePushUsage(players[i], finalScores, holeNumber)]
        newHistory     == upsertHistory(history, res)
    IN  /\ history' = newHistory
        /\ players' = updatedPlayers
        /\ currentHole' = IF holeNumber >= LastHole THEN LastHole ELSE holeNumber + 1
        /\ gameStatus' = IF holeNumber >= LastHole THEN "finished" ELSE gameStatus
        /\ nextHoleMultiplier' = res.nextHoleMultiplier
        /\ UNCHANGED <<settings, savedRounds>>

\* variant: moving the cursor puts the round back to playing
goToHole_Replaying(holeNumber) ==
    /\ currentHole' = holeNumber
    /\ gameStatus' = "playing"
    /\ UNCHANGED <<players, history, settings, savedRounds, nextHoleMultiplier>>

goToHole(holeNumber) ==
    /\ currentHole' = holeNumber
    /\ UNCHANGED <<players, gameStatus, history, settings, savedRounds,
                   nextHoleMultiplier>>

\* variant: the players keep the push usage of the round before
startGame_KeepUsage(startHole) ==
    /\ players' = players
    /\ currentHole' = startHole
    /\ gameStatus' = "playing"
    /\ history' = << >>
    /\ nextHoleMultiplier' = 1
    /\ UNCHANGED <<settings, savedRounds>>

\* startGame: a new round for the same players, settings and saved rounds
startGame(startHole) ==
    /\ players' = [i \in 1..Len(players) |->
                      [players[i] EXCEPT !.pushUsageCount = [front9 |-> 0, back9 |-> 0]]]
    /\ currentHole' = startHole
    /\ gameStatus' = "playing"
    /\ history' = << >>
    /\ nextHoleMultiplier' = 1
    /\ UNCHANGED <<settings, savedRounds>>

resetGame ==
    /\ players' = << >>
    /\ currentHole' = 1
    /\ gameStatus' = "playing"
    /\ history' = << >>
    /\ settings' = INITIAL_SETTINGS
    /\ savedRounds' = << >>
    /\ nextHoleMultiplier' = 1

updateSettings(newSettings) ==
    /\ settings' = [k \in DOMAIN settings |->
                       IF k \in DOMAIN newSettings THEN newSettings[k] ELSE settings[k]]
    /\ UNCHANGED <<players, currentHole, gameStatus, history, savedRounds,
                   nextHoleMultiplier>>

updatePlayerName(id, name) ==
    /\ players' = [i \in 1..Len(players) |->
                      IF players[i].id = id THEN [players[i] EXCEPT !.name = name]
                      ELSE players[i]]
    /\ UNCHANGED <<currentHole, gameStatus, history, settings, savedRounds,
                   nextHoleMultiplier>>

\* variant: only the holes a player won are added up
totalScoreOf_WinsOnly(hist, id) ==
    SumOver([i \in 1..Len(hist) |->
                IF id \in DOMAIN hist[i].pointsResult
                THEN Max(0, hist[i].pointsResult[id]) ELSE 0],
            1..Len(hist))

\* variant: the points are added up without their sign
totalScoreOf_Magnitude(hist, id) ==
    SumOver([i \in 1..Len(hist) |->
                IF id \in DOMAIN hist[i].pointsResult
                THEN Max(hist[i].pointsResult[id], 0 - hist[i].pointsResult[id])
                ELSE 0],
            1..Len(hist))

\* history.reduce((total, h) => total + (h.pointsResult[id] || 0), 0)
totalScoreOf(hist, id) ==
    SumOver([i \in 1..Len(hist) |->
                IF id \in DOMAIN hist[i].pointsResult
                THEN hist[i].pointsResult[id] ELSE 0],
            1..Len(hist))

getPlayerTotalScore(id) == totalScoreOf(history, id)

\* variant: the new round is put behind the stored ones
saveCurrentRound_Append(now) ==
    IF Len(history) = 0
    THEN UNCHANGED <<players, currentHole, gameStatus, history, settings,
                     savedRounds, nextHoleMultiplier>>
    ELSE LET finalScores == [id \in {players[i].id : i \in 1..Len(players)} |->
                                getPlayerTotalScore(id)]
             newRound    == [id          |-> now,
                             date        |-> now,
                             name        |-> IF settings.matchName # ""
                                             THEN settings.matchName
                                             ELSE "Untitled Match",
                             players     |-> players,
                             currentHole |-> currentHole,
                             gameStatus  |-> gameStatus,
                             history     |-> history,
                             finalScores |-> finalScores]
         IN  /\ savedRounds' = savedRounds \o <<newRound>>
             /\ UNCHANGED <<players, currentHole, gameStatus, history, settings,
                            nextHoleMultiplier>>

\* variant: a stored round is taken to be a finished one
saveCurrentRound_AssumeFinished(now) ==
    IF Len(history) = 0
    THEN UNCHANGED <<players, currentHole, gameStatus, history, settings,
                     savedRounds, nextHoleMultiplier>>
    ELSE LET finalScores == [id \in {players[i].id : i \in 1..Len(players)} |->
                                getPlayerTotalScore(id)]
             newRound    == [id          |-> now,
                             date        |-> now,
                             name        |-> IF settings.matchName # ""
                                             THEN settings.matchName
                                             ELSE "Untitled Match",
                             players     |-> players,
                             currentHole |-> currentHole,
                             gameStatus  |-> "finished",
                             history     |-> history,
                             finalScores |-> finalScores]
         IN  /\ savedRounds' = <<newRound>> \o savedRounds
             /\ UNCHANGED <<players, currentHole, gameStatus, history, settings,
                            nextHoleMultiplier>>

\* saveCurrentRound: nothing with an empty history, else a RoundResult is
\* put in front of savedRounds; now is the clock reading of the call
saveCurrentRound(now) ==
    IF Len(history) = 0
    THEN UNCHANGED <<players, currentHole, gameStatus, history, settings,
                     savedRounds, nextHoleMultiplier>>
    ELSE LET finalScores == [id \in {players[i].id : i \in 1..Len(players)} |->
                                getPlayerTotalScore(id)]
             newRound    == [id          |-> now,
                             date        |-> now,
                             name        |-> IF settings.matchName # ""
                                             THEN settings.matchName
                                             ELSE "Untitled Match",
                             players     |-> players,
                             currentHole |-> currentHole,
                             gameStatus  |-> gameStatus,
                             history     |-> history,
                             finalScores |-> finalScores]
         IN  /\ savedRounds' = <<newRound>> \o savedRounds
             /\ UNCHANGED <<players, currentHole, gameStatus, history, settings,
                            nextHoleMultiplier>>

----------------------------------------------------------------------------
(* screens/ScoreInputScreen.tsx: what the input screen submits *)

\* the strokes a submission may carry for p1..p4, at par 4
StrokeRows ==
    { <<4, 5, 5, 6>>,     \* no birdie
      <<4, 5, 4, 5>>,     \* the same strokes on both sides
      <<5, 6, 3, 5>> }    \* a birdie for p3

StrokeOf(row) == [id \in PlayerIds |->
                    IF id = "p1" THEN row[1] ELSE IF id = "p2" THEN row[2]
                    ELSE IF id = "p3" THEN row[3] ELSE row[4]]

\* the pushes a submission may carry: p1 declares any count up to the
\* default limit, the others none
PushRows ==
    { [id \in PlayerIds |-> IF id = "p1" THEN a ELSE 0] :
         a \in 0..INITIAL_SETTINGS.maxPushCountPerHalf }

Submissions ==
    [par : {4}, strokes : {StrokeOf(r) : r \in StrokeRows}, pushCounts : PushRows,
     teamA : {<<"p1", "p2">>}, teamB : {<<"p3", "p4">>}]

\* handleSubmit: the ScoreInput of every player, the birdie decided from par
scoreInputsOf(sub) ==
    [id \in {players[i].id : i \in 1..Len(players)} |->
        [score     |-> sub.strokes[id],
         isBirdie  |-> sub.strokes[id] < sub.par,
         pushCount |-> sub.pushCounts[id]]]

\* canSubmit: two players on each side, all strokes entered
canSubmit(sub) ==
    LET ids == {players[i].id : i \in 1..Len(players)}
    IN  /\ \A i \in 1..2 : sub.teamA[i] \in ids /\ sub.teamB[i] \in ids
        /\ \A id \in ids : id \in DOMAIN sub.strokes /\ sub.strokes[id] > 0

handleSubmit(sub) ==
    /\ canSubmit(sub)
    /\ completeHole(sub.par, scoreInputsOf(sub), sub.teamA, sub.teamB, currentHole)

CompleteHole ==
    /\ calls < MaxCalls
    /\ \E sub \in Submissions : handleSubmit(sub)
    /\ calls' = calls + 1
    /\ UNCHANGED <<params, result>>
\* the holes the cursor is sent to: one already played, or the last hole
\* of a half
NavTargets == {history[i].holeNumber : i \in 1..Len(history)}
              \cup {FrontNineLast, LastHole}

GoToHole ==
    /\ \E h \in NavTargets : goToHole(h)
    /\ UNCHANGED <<params, result, calls>>

StartGame ==
    /\ \E startHole \in {1, 10} : startGame(startHole)
    /\ UNCHANGED <<params, result, calls>>

ResetGame ==
    /\ resetGame
    /\ UNCHANGED <<params, result, calls>>

\* the push limits the setup dialog is given
PushLimits == {1, 2}

\* handleStartGame: the settings are written before the round starts
UpdateSettings ==
    /\ history = << >>
    /\ \E limit \in PushLimits :
          updateSettings([matchName |-> "", rate |-> 10, maxPushCountPerHalf |-> limit])
    /\ UNCHANGED <<params, result, calls>>

Init ==
    /\ StoreInit
    /\ params = NoParams
    /\ result = NoResult

Next ==
    \/ CompleteHole
    \/ GoToHole
    \/ StartGame
    \/ ResetGame
    \/ UpdateSettings

Spec == Init /\ [][Next]_vars

----------------------------------------------------------------------------
(* The round with its archive: every action of the store the screens call. *)
(* A stored round holds a whole history, so the budget is smaller and is   *)
(* shared by completeHole and saveCurrentRound.                            *)

\* the bound of the archive model: completeHole calls plus stored rounds
MaxArchiveCalls == 2

\* the clock readings a saveCurrentRound call may see
Times == {1}

\* the names the name dialog is given
Names == {"Player A", "Ann"}

ArchiveCompleteHole ==
    /\ calls + Len(savedRounds) < MaxArchiveCalls
    /\ CompleteHole

\* handleSaveGame
SaveCurrentRound ==
    /\ calls + Len(savedRounds) < MaxArchiveCalls
    /\ \E now \in Times : saveCurrentRound(now)
    /\ UNCHANGED <<params, result, calls>>

\* saveName: the trimmed name is not empty
UpdatePlayerName ==
    /\ \E name \in Names : name # "" /\ updatePlayerName("p1", name)
    /\ UNCHANGED <<params, result, calls>>

\* handleUpdateSettingsMIDGAME: the settings dialog of a running round
UpdateSettingsMidGame ==
    /\ history # << >>
    /\ \E limit \in PushLimits :
          updateSettings([matchName |-> settings.matchName, rate |-> settings.rate,
                          maxPushCountPerHalf |-> limit])
    /\ UNCHANGED <<params, result, calls>>

ArchiveNext ==
    \/ ArchiveCompleteHole
    \/ GoToHole
    \/ StartGame
    \/ ResetGame
    \/ UpdateSettings
    \/ UpdateSettingsMidGame
    \/ SaveCurrentRound
    \/ UpdatePlayerName

SpecArchive == Init /\ [][ArchiveNext]_vars

----------------------------------------------------------------------------
(* The round as the input screen drives it: the pushes of a submission are *)
(* the ones the screen holds, the cursor moves by the two arrows.          *)

isFront9 == currentHole <= 9

isEditingExisting == \E i \in 1..Len(history) : history[i].holeNumber = currentHole

\* cyclePush: the pushes a player has left in the half of the current hole
available(id) ==
    LET player     == players[CHOOSE i \in 1..Len(players) : players[i].id = id]
        maxPush    == settings.maxPushCountPerHalf
        usedOfHalf == IF isFront9 THEN player.pushUsageCount.front9
                      ELSE player.pushUsageCount.back9
    IN  Max(0, maxPush - usedOfHalf)

\* the hydrate effect on a saved hole: pushCounts is what the hole stores
savedPushCounts ==
    LET savedHole == history[findIndex(history, currentHole)]
    IN  [pid \in DOMAIN savedHole.scores |-> savedHole.scores[pid].pushCount]

\* the pushCounts the screen holds at a submission: on a saved hole the
\* hydrated ones, on a new hole what cyclePush reaches from none, 0 up to
\* what is available
screenPushCounts ==
    IF isEditingExisting
    THEN {savedPushCounts}
    ELSE {row \in PushRows :
             \A i \in 1..Len(players) : row[players[i].id] <= available(players[i].id)}

ScreenSubmissions ==
    [par : {4}, strokes : {StrokeOf(r) : r \in StrokeRows},
     pushCounts : screenPushCounts,
     teamA : {<<"p1", "p2">>}, teamB : {<<"p3", "p4">>}]

\* HomeScreen: the input screen is replaced by the result screen when the
\* round is finished
inputScreenShown == gameStatus # "finished"

HandleSubmit ==
    /\ inputScreenShown
    /\ calls < MaxCalls
    /\ \E sub \in ScreenSubmissions : handleSubmit(sub)
    /\ calls' = calls + 1
    /\ UNCHANGED <<params, result>>

\* variant: the left arrow moves down from any hole
HandlePrevHole_Unguarded ==
    /\ inputScreenShown
    /\ goToHole(currentHole - 1)
    /\ UNCHANGED <<params, result, calls>>

HandlePrevHole ==
    /\ inputScreenShown
    /\ currentHole > 1
    /\ goToHole(currentHole - 1)
    /\ UNCHANGED <<params, result, calls>>

\* the right arrow is disabled unless the current hole is a saved one
HandleNextHoleNav ==
    /\ inputScreenShown
    /\ isEditingExisting
    /\ goToHole(currentHole + 1)
    /\ UNCHANGED <<params, result, calls>>

ScreenNext ==
    \/ HandleSubmit
    \/ HandlePrevHole
    \/ HandleNextHoleNav
    \/ StartGame
    \/ UpdateSettings

SpecScreen == Init /\ [][ScreenNext]_vars

----------------------------------------------------------------------------
(* Properties of the resolver, checked under SpecResolver *)

Resolved == result # NoResult

\* the final score of a team as the rules state it: low*10 + high, the
\* digits reversed when a member of the opposing team has a birdie
RuleFinal(scores, team, opponents) ==
    LET s1   == scores[team[1]].score
        s2   == scores[team[2]].score
        low  == IF s1 <= s2 THEN s1 ELSE s2
        high == IF s1 <= s2 THEN s2 ELSE s1
    IN  IF \E i \in 1..2 : scores[opponents[i]].isBirdie
        THEN high * 10 + low
        ELSE low * 10 + high

RuleFinalA == RuleFinal(params.scores, params.teams[1], params.teams[2])
RuleFinalB == RuleFinal(params.scores, params.teams[2], params.teams[1])
RuleDiff == IF RuleFinalA < RuleFinalB THEN RuleFinalB - RuleFinalA
            ELSE RuleFinalA - RuleFinalB

\* the count of the rules: carry-over above 1, all pushes, one for any birdie
RuleCount ==
    LET sc == params.scores
        c  == params.currentCarryOverMultiplier
    IN  (IF c - 1 > 0 THEN c - 1 ELSE 0)
        + sc["p1"].pushCount + sc["p2"].pushCount
        + sc["p3"].pushCount + sc["p4"].pushCount
        + (IF sc["p1"].isBirdie \/ sc["p2"].isBirdie
              \/ sc["p3"].isBirdie \/ sc["p4"].isBirdie THEN 1 ELSE 0)

PushTotal ==
    params.scores["p1"].pushCount + params.scores["p2"].pushCount
    + params.scores["p3"].pushCount + params.scores["p4"].pushCount

BirdieCount == Cardinality({id \in PlayerIds : params.scores[id].isBirdie})

TeamSet(team) == {team[1], team[2]}

\* C1: zero-sum.  For every resolved hole whose scores hold the four ids of
\* two disjoint pairs, the four values of pointsResult sum to 0.
C1_ZeroSum ==
    Resolved =>
        result.pointsResult["p1"] + result.pointsResult["p2"]
        + result.pointsResult["p3"] + result.pointsResult["p4"] = 0

\* a decided hole with a push, a birdie and a carry-over has been resolved
C1_Witness ==
    /\ Resolved
    /\ ~result.isDraw
    /\ PushTotal > 0
    /\ BirdieCount > 0
    /\ params.currentCarryOverMultiplier > 1
    /\ result.pointsResult["p1"] # 0

C3_Points ==
    Resolved =>
        LET teamA   == TeamSet(params.teams[1])
            teamB   == TeamSet(params.teams[2])
            winners == IF RuleFinalA < RuleFinalB THEN teamA ELSE teamB
            losers  == IF RuleFinalA < RuleFinalB THEN teamB ELSE teamA
            points  == RuleDiff * result.appliedMultiplier
        IN  IF RuleFinalA = RuleFinalB
            THEN \A id \in PlayerIds : result.pointsResult[id] = 0
            ELSE /\ \A id \in winners : result.pointsResult[id] = points
                 /\ \A id \in losers : result.pointsResult[id] = 0 - points

\* team B won a hole played at a rate above 1
C3_Witness ==
    /\ Resolved
    /\ RuleFinalB < RuleFinalA
    /\ result.appliedMultiplier > 1
    /\ \A id \in TeamSet(params.teams[2]) :
          result.pointsResult[id] = RuleDiff * result.appliedMultiplier
    /\ \A id \in TeamSet(params.teams[1]) : result.pointsResult[id] < 0

\* the scores with the birdie flags of one pair replaced
WithFlags(scores, team, b1, b2) ==
    [id \in DOMAIN scores |->
        IF id = team[1] THEN [scores[id] EXCEPT !.isBirdie = b1]
        ELSE IF id = team[2] THEN [scores[id] EXCEPT !.isBirdie = b2]
        ELSE scores[id]]

\* C4: final team score and birdie flip.  A team's final score is
\* low*10 + high unless a member of the opposing team has a birdie, then it
\* is high*10 + low; its own flags never change its own final score, and
\* with a birdie on both sides both are flipped.
C4_FinalScore ==
    Resolved =>
        LET sc    == params.scores
            tA    == params.teams[1]
            tB    == params.teams[2]
            final == teamFinalScores(sc, tA, tB)
        IN  /\ final.A = RuleFinalA
            /\ final.B = RuleFinalB
            /\ \A b1, b2 \in BOOLEAN :
                  /\ teamFinalScores(WithFlags(sc, tA, b1, b2), tA, tB).A = final.A
                  /\ teamFinalScores(WithFlags(sc, tB, b1, b2), tA, tB).B = final.B

\* both teams have a birdie and unequal strokes: both scores are reversed
C4_Witness ==
    /\ Resolved
    /\ hasBirdie(params.scores, params.teams[1])
    /\ hasBirdie(params.scores, params.teams[2])
    /\ LET final == teamFinalScores(params.scores, params.teams[1], params.teams[2])
           rawA  == getRawTeamScore(params.scores, params.teams[1][1], params.teams[1][2])
           rawB  == getRawTeamScore(params.scores, params.teams[2][1], params.teams[2][2])
       IN  /\ rawA.low < rawA.high /\ final.A = rawA.high * 10 + rawA.low
           /\ rawB.low < rawB.high /\ final.B = rawB.high * 10 + rawB.low

\* C5: winner determination.  The team with the strictly lower final score
\* wins; isDraw holds exactly when the final scores are equal, and then
\* every pointsResult is 0 whatever the pushes, birdies and carry-over.
C5_Winner ==
    Resolved =>
        LET teamA == TeamSet(params.teams[1])
            teamB == TeamSet(params.teams[2])
        IN  /\ result.isDraw <=> (RuleFinalA = RuleFinalB)
            /\ RuleFinalA < RuleFinalB =>
                  /\ \A id \in teamA : result.pointsResult[id] > 0
                  /\ \A id \in teamB : result.pointsResult[id] < 0
            /\ RuleFinalB < RuleFinalA =>
                  /\ \A id \in teamB : result.pointsResult[id] > 0
                  /\ \A id \in teamA : result.pointsResult[id] < 0
            /\ RuleFinalA = RuleFinalB =>
                  \A id \in PlayerIds : result.pointsResult[id] = 0

\* a draw with pushes, a birdie and a carry-over: the rate is above 1 and
\* nobody gets a point
C5_Witness ==
    /\ Resolved
    /\ result.isDraw
    /\ PushTotal > 0
    /\ BirdieCount > 0
    /\ params.currentCarryOverMultiplier > 1
    /\ result.appliedMultiplier > 1
    /\ \A id \in PlayerIds : result.pointsResult[id] = 0

\* C6: next multiplier.  nextHoleMultiplier is carryOverMultiplierIn + 1 on
\* a draw and 1 otherwise, whatever the pushes and birdies.
C6_NextMultiplier ==
    Resolved =>
        result.nextHoleMultiplier =
            (IF RuleFinalA = RuleFinalB
             THEN params.currentCarryOverMultiplier + 1
             ELSE 1)

\* a decided hole entered with a carry-over of 2, pushes and a birdie hands
\* on the multiplier 1
C6_Witness ==
    /\ Resolved
    /\ ~result.isDraw
    /\ params.currentCarryOverMultiplier = 2
    /\ PushTotal > 0
    /\ BirdieCount > 0
    /\ result.nextHoleMultiplier = 1

----------------------------------------------------------------------------
(* Properties of the round, checked under Spec *)

\* the entry of a hole in a history (the hole is in it)
EntryOf(hist, holeNumber) == hist[findIndex(hist, holeNumber)]

Played(hist, holeNumber) == findIndex(hist, holeNumber) # 0

\* this step is a completeHole call
IsCompleteHoleStep == calls' = calls + 1

\* pushes and birdie bonus of a stored hole, as the rules count them
RulePushes(sc) ==
    sc["p1"].pushCount + sc["p2"].pushCount + sc["p3"].pushCount + sc["p4"].pushCount

RuleBirdieBonus(sc) ==
    IF sc["p1"].isBirdie \/ sc["p2"].isBirdie \/ sc["p3"].isBirdie \/ sc["p4"].isBirdie
    THEN 1 ELSE 0

RuleDrawn(r) ==
    RuleFinal(r.scores, r.teamA_Ids, r.teamB_Ids)
        = RuleFinal(r.scores, r.teamB_Ids, r.teamA_Ids)

\* C7: draw escalation across holes.  A completeHole call on a new hole
\* entered with the running multiplier M resolves the hole with the
\* carry-over contribution M - 1 to its count; a draw leaves the running
\* multiplier at M + 1 (so N draws in a row leave it at M + N), a decided
\* hole returns it to 1.
C7_DrawEscalation ==
    [][ (IsCompleteHoleStep /\ ~Played(history, currentHole)) =>
            LET r     == EntryOf(history', currentHole)
                M     == nextHoleMultiplier
                count == (M - 1) + RulePushes(r.scores) + RuleBirdieBonus(r.scores)
            IN  /\ r.carryOverMultiplier = M
                /\ r.appliedMultiplier = (IF count = 0 THEN 1 ELSE 2 * count)
                /\ RuleDrawn(r) => nextHoleMultiplier' = M + 1
                /\ ~RuleDrawn(r) => nextHoleMultiplier' = 1
      ]_vars

\* two new holes in a row were drawn from multiplier 1: the second was
\* entered at 2 and the running multiplier is 3
C7_Witness ==
    /\ Len(history) = 2
    /\ history[2].holeNumber = history[1].holeNumber + 1
    /\ history[1].isDraw /\ history[1].carryOverMultiplier = 1
    /\ history[2].isDraw /\ history[2].carryOverMultiplier = 2
    /\ calls = 2
    /\ nextHoleMultiplier = 3

\* C8: multiplier floor.  Every resolved hole has appliedMultiplier >= 1 and
\* nextHoleMultiplier >= 1, and the running carry-over multiplier of the
\* round is >= 1 in every reachable state.
C8_MultiplierFloor ==
    /\ nextHoleMultiplier >= 1
    /\ \A i \in 1..Len(history) :
          /\ history[i].carryOverMultiplier >= 1
          /\ history[i].appliedMultiplier >= 1
          /\ history[i].nextHoleMultiplier >= 1

\* a hole without carry-over, push or birdie was resolved at the rate 1
C8_Witness ==
    \E i \in 1..Len(history) :
        /\ history[i].carryOverMultiplier = 1
        /\ RulePushes(history[i].scores) = 0
        /\ RuleBirdieBonus(history[i].scores) = 0
        /\ history[i].appliedMultiplier = 1
        /\ nextHoleMultiplier = 1

\* C10: forced push.  When completeHole is called for hole 9 (hole 18),
\* every player whose front9 (back9) usage is below maxPushCountPerHalf has
\* exactly the remaining quota as pushCount in the resolved hole, whatever
\* was submitted; a player already at the limit keeps the submitted count.
C10_ForcedPush ==
    [][ (IsCompleteHoleStep /\ currentHole \in {FrontNineLast, LastHole}) =>
            \A sub \in Submissions :
                handleSubmit(sub) =>
                    LET r       == EntryOf(history', currentHole)
                        maxPush == settings.maxPushCountPerHalf
                    IN  \A i \in 1..Len(players) :
                            LET id   == players[i].id
                                used == IF currentHole = FrontNineLast
                                        THEN players[i].pushUsageCount.front9
                                        ELSE players[i].pushUsageCount.back9
                            IN  /\ used < maxPush =>
                                      r.scores[id].pushCount = maxPush - used
                                /\ used >= maxPush =>
                                      r.scores[id].pushCount = sub.pushCounts[id]
      ]_vars

\* hole 1 was played with one push of p1, then hole 9: p1 was given the one
\* push left, the others both of theirs, and every front9 usage is at the limit
C10_Witness ==
    /\ settings.maxPushCountPerHalf = 2
    /\ Len(history) = 2
    /\ history[1].holeNumber = 1
    /\ history[1].scores["p1"].pushCount = 1
    /\ history[2].holeNumber = FrontNineLast
    /\ history[2].scores["p1"].pushCount = 1
    /\ \A id \in {"p2", "p3", "p4"} : history[2].scores[id].pushCount = 2
    /\ \A i \in 1..Len(players) : players[i].pushUsageCount.front9 = 2

\* the player record of an id in a player list (the id is in it)
PlayerOf(plrs, id) == plrs[CHOOSE i \in 1..Len(plrs) : plrs[i].id = id]

\* the pushes a submission declares, all players together
SubPushes(sub) ==
    sub.pushCounts["p1"] + sub.pushCounts["p2"]
    + sub.pushCounts["p3"] + sub.pushCounts["p4"]

\* C11: no forced push elsewhere.  For completeHole on a hole other than 9
\* and 18, the pushCount of every player that is resolved, stored in
\* history and added to the push usage is the submitted one, whatever quota
\* the player has left.
C11_NoForcedPushElsewhere ==
    [][ (IsCompleteHoleStep /\ currentHole \notin {FrontNineLast, LastHole}) =>
            \A sub \in Submissions :
                handleSubmit(sub) =>
                    LET r     == EntryOf(history', currentHole)
                        count == (nextHoleMultiplier - 1) + SubPushes(sub)
                                 + RuleBirdieBonus(r.scores)
                    IN  /\ r.appliedMultiplier = (IF count = 0 THEN 1 ELSE 2 * count)
                        /\ \A id \in PlayerIds :
                              LET before == PlayerOf(players, id).pushUsageCount
                                  after  == PlayerOf(players', id).pushUsageCount
                              IN  /\ r.scores[id].pushCount = sub.pushCounts[id]
                                  /\ after.front9 + after.back9
                                        = before.front9 + before.back9
                                          + sub.pushCounts[id]
      ]_vars

\* holes 1 and 2 were completed once each with the limit at 2: p1 declared
\* one push, then two with a single one left, and both are stored and
\* counted; p2 declared none with both left and none was stored
C11_Witness ==
    /\ settings.maxPushCountPerHalf = 2
    /\ calls = 2
    /\ Len(history) = 2
    /\ history[1].holeNumber = 1 /\ history[1].scores["p1"].pushCount = 1
    /\ history[2].holeNumber = 2 /\ history[2].scores["p1"].pushCount = 2
    /\ history[1].scores["p2"].pushCount = 0
    /\ history[2].scores["p2"].pushCount = 0
    /\ PlayerOf(players, "p1").pushUsageCount.front9 = 3
    /\ PlayerOf(players, "p2").pushUsageCount.front9 = 0

\* C12: push-usage bookkeeping.  Every completeHole call adds the effective
\* pushCount of each player (the one stored for the hole) to front9 when
\* the hole is at most 9 and to back9 when it is at least 10, and leaves
\* the counter of the other half as it was; an effective count of 0 leaves
\* both.
C12_PushUsage ==
    [][ IsCompleteHoleStep =>
            LET r == EntryOf(history', currentHole)
            IN  \A id \in PlayerIds :
                    LET before    == PlayerOf(players, id).pushUsageCount
                        after     == PlayerOf(players', id).pushUsageCount
                        effective == r.scores[id].pushCount
                    IN  /\ currentHole <= 9 =>
                              /\ after.front9 = before.front9 + effective
                              /\ after.back9 = before.back9
                        /\ currentHole >= 10 =>
                              /\ after.back9 = before.back9 + effective
                              /\ after.front9 = before.front9
                        /\ effective = 0 => after = before
      ]_vars

\* hole 9 was completed with everybody forced to the limit, then hole 10
\* with one push of p1: the front nine holds 2 for each, the back nine 1
\* for p1 and 0 for p2
C12_Witness ==
    /\ Len(history) = 2
    /\ history[1].holeNumber = FrontNineLast
    /\ history[2].holeNumber = 10
    /\ history[2].scores["p1"].pushCount = 1
    /\ PlayerOf(players, "p1").pushUsageCount = [front9 |-> 2, back9 |-> 1]
    /\ PlayerOf(players, "p2").pushUsageCount = [front9 |-> 2, back9 |-> 0]

\* C13: push quota bound.  After any sequence of startGame, goToHole and
\* completeHole calls made from the input screen (a new hole submitted with
\* pushes within the quota left, a saved hole with the pushes it stores),
\* front9 and back9 of every player are at most maxPushCountPerHalf.
C13_PushQuotaBound ==
    \A i \in 1..Len(players) :
        /\ players[i].pushUsageCount.front9 <= settings.maxPushCountPerHalf
        /\ players[i].pushUsageCount.back9 <= settings.maxPushCountPerHalf

\* C14: push usage is monotone.  No completeHole, goToHole,
\* saveCurrentRound, updateSettings or updatePlayerName call lowers front9
\* or back9 of a player; only startGame and resetGame do.
C14_PushUsageMonotone ==
    [][ (\/ ArchiveCompleteHole
         \/ GoToHole
         \/ SaveCurrentRound
         \/ UpdateSettings
         \/ UpdateSettingsMidGame
         \/ UpdatePlayerName) =>
            /\ Len(players') = Len(players)
            /\ \A i \in 1..Len(players) :
                  /\ players'[i].id = players[i].id
                  /\ players'[i].pushUsageCount.front9 >= players[i].pushUsageCount.front9
                  /\ players'[i].pushUsageCount.back9 >= players[i].pushUsageCount.back9
      ]_vars

\* p1 used two pushes on hole 1; the round was saved, p1 renamed, the limit
\* lowered to 1 and the cursor moved to hole 9: the two pushes still count
C14_Witness ==
    /\ Len(savedRounds) = 1
    /\ savedRounds[1].players[1].name = "Player A"
    /\ savedRounds[1].players[1].pushUsageCount.front9 = 2
    /\ players[1].name = "Ann"
    /\ players[1].pushUsageCount.front9 = 2
    /\ settings.maxPushCountPerHalf = 1
    /\ currentHole = FrontNineLast
    /\ Len(history) = 1

\* C15: history order and uniqueness.  In every reachable state the history
\* is strictly ascending by holeNumber, so it holds at most one entry per
\* hole, whatever order holes are completed or edited in.
C15_HistorySorted ==
    \A i \in 1..Len(history) : \A j \in 1..Len(history) :
        i < j => history[i].holeNumber < history[j].holeNumber

\* hole 10 was drawn first, then hole 9 completed with the multiplier the
\* draw left: the later entry stands first
C15_Witness ==
    /\ calls = 2
    /\ Len(history) = 2
    /\ history[1].holeNumber = FrontNineLast
    /\ history[1].carryOverMultiplier = 2
    /\ history[2].holeNumber = 10
    /\ history[2].carryOverMultiplier = 1
    /\ history[2].isDraw

\* the fields of a HoleResult
HoleResultFields ==
    {"holeNumber", "par", "scores", "teamA_Ids", "teamB_Ids", "carryOverMultiplier",
     "isDraw", "appliedMultiplier", "pointsResult", "nextHoleMultiplier"}

\* r is what submission sub resolves to on the current hole in this step,
\* field by field as the rules state it
ResolvedFrom(r, sub) ==
    LET fA    == RuleFinal(r.scores, r.teamA_Ids, r.teamB_Ids)
        fB    == RuleFinal(r.scores, r.teamB_Ids, r.teamA_Ids)
        diff  == IF fA < fB THEN fB - fA ELSE fA - fB
        count == (nextHoleMultiplier - 1) + RulePushes(r.scores)
                 + RuleBirdieBonus(r.scores)
        sign(id) == IF fA = fB THEN 0
                    ELSE IF (fA < fB) = (id \in TeamSet(r.teamA_Ids)) THEN 1 ELSE 0 - 1
    IN  /\ DOMAIN r = HoleResultFields
        /\ r.holeNumber = currentHole
        /\ r.par = sub.par
        /\ r.teamA_Ids = sub.teamA
        /\ r.teamB_Ids = sub.teamB
        /\ DOMAIN r.scores = PlayerIds
        /\ \A id \in PlayerIds :
              /\ r.scores[id].score = sub.strokes[id]
              /\ r.scores[id].isBirdie = (sub.strokes[id] < sub.par)
              /\ currentHole \notin {FrontNineLast, LastHole} =>
                    r.scores[id].pushCount = sub.pushCounts[id]
        /\ r.carryOverMultiplier = nextHoleMultiplier
        /\ r.isDraw = (fA = fB)
        /\ r.appliedMultiplier = (IF count = 0 THEN 1 ELSE 2 * count)
        /\ DOMAIN r.pointsResult = PlayerIds
        /\ \A id \in PlayerIds :
              r.pointsResult[id] = sign(id) * diff * r.appliedMultiplier
        /\ r.nextHoleMultiplier = (IF fA = fB THEN nextHoleMultiplier + 1 ELSE 1)

\* C16: an edit replaces one entry and does not cascade.  completeHole for
\* a hole already in history puts the newly resolved HoleResult in the place
\* of that entry, keeps the length of the history and leaves every other
\* entry as it was, the carryOverMultiplier, appliedMultiplier and
\* pointsResult of later holes included.
C16_EditReplacesOne ==
    [][ (IsCompleteHoleStep /\ Played(history, currentHole)) =>
            \A sub \in Submissions :
                handleSubmit(sub) =>
                    LET k == findIndex(history, currentHole)
                    IN  /\ Len(history') = Len(history)
                        /\ ResolvedFrom(history'[k], sub)
                        /\ \A i \in 1..Len(history) :
                              i # k => history'[i] = history[i]
      ]_vars

\* holes 1 and 2 were drawn, then hole 1 was edited to a decided hole at the
\* running multiplier 3: hole 2 still holds the carry-over 2 the first
\* result of hole 1 gave it
C16_Witness ==
    /\ calls = 3
    /\ Len(history) = 2
    /\ history[1].holeNumber = 1
    /\ history[1].carryOverMultiplier = 3
    /\ ~history[1].isDraw
    /\ history[1].nextHoleMultiplier = 1
    /\ history[2].holeNumber = 2
    /\ history[2].carryOverMultiplier = 2
    /\ history[2].isDraw
    /\ nextHoleMultiplier = 1

\* C17: stale carry-over on edit.  When completeHole resolves a hole already
\* in history, the carry-over given to the resolver is the running
\* multiplier of the round as it stood before the call, not the one the
\* replaced entry records and not one recomputed from the preceding hole.
C17_StaleCarryOnEdit ==
    [][ (IsCompleteHoleStep /\ Played(history, currentHole)) =>
            LET r     == EntryOf(history', currentHole)
                M     == nextHoleMultiplier
                count == (M - 1) + RulePushes(r.scores) + RuleBirdieBonus(r.scores)
            IN  /\ r.carryOverMultiplier = M
                /\ r.appliedMultiplier = (IF count = 0 THEN 1 ELSE 2 * count)
                /\ nextHoleMultiplier' = (IF RuleDrawn(r) THEN M + 1 ELSE 1)
      ]_vars

\* hole 1 was drawn, hole 2 decided at the carry-over 2 and then edited: the
\* new entry of hole 2 holds the carry-over 1 the round stood at, neither
\* the 2 it recorded before nor the 2 hole 1 hands on
C17_Witness ==
    /\ calls = 3
    /\ Len(history) = 2
    /\ history[1].holeNumber = 1
    /\ history[1].isDraw
    /\ history[1].nextHoleMultiplier = 2
    /\ history[2].holeNumber = 2
    /\ history[2].carryOverMultiplier = 1
    /\ ~history[2].isDraw
    /\ currentHole = 3
    /\ nextHoleMultiplier = 1

\* C18: round completion.  completeHole for hole 18 sets the status to
\* finished and leaves the cursor at 18; completeHole for a hole h < 18 sets
\* the cursor to h + 1 and does not set the status to finished.
C18_RoundCompletion ==
    [][ IsCompleteHoleStep =>
            /\ currentHole = LastHole =>
                  /\ gameStatus' = "finished"
                  /\ currentHole' = LastHole
            /\ currentHole < LastHole =>
                  /\ currentHole' = currentHole + 1
                  /\ gameStatus' = "finished" => gameStatus = "finished"
      ]_vars

\* hole 1 was completed and left the round playing at hole 2, then hole 18:
\* the round is finished with the cursor at 18
C18_Witness ==
    /\ calls = 2
    /\ Len(history) = 2
    /\ history[1].holeNumber = 1
    /\ history[2].holeNumber = LastHole
    /\ gameStatus = "finished"
    /\ currentHole = LastHole

\* C19: goToHole is pure navigation.  goToHole(h) sets the cursor to h and
\* leaves history, the players with their push usage, the running
\* multiplier, the status, the settings and the saved rounds as they were.
C19_GoToHolePure ==
    [][ \A h \in NavTargets :
            goToHole(h) =>
                /\ currentHole' = h
                /\ history' = history
                /\ players' = players
                /\ nextHoleMultiplier' = nextHoleMultiplier
                /\ gameStatus' = gameStatus
                /\ settings' = settings
                /\ savedRounds' = savedRounds
      ]_vars

\* hole 18 was drawn and the finished round saved, then the cursor was sent
\* to hole 9: round and archive are what they were
C19_Witness ==
    /\ Len(savedRounds) = 1
    /\ savedRounds[1].currentHole = LastHole
    /\ savedRounds[1].history = history
    /\ savedRounds[1].players = players
    /\ currentHole = FrontNineLast
    /\ gameStatus = "finished"
    /\ Len(history) = 1
    /\ history[1].holeNumber = LastHole
    /\ nextHoleMultiplier = 2
    /\ players[1].pushUsageCount.back9 = 2

\* the points of a player over the holes that have an entry, one entry each
RuleTotal(hist, id) ==
    LET holes == {hist[i].holeNumber : i \in 1..Len(hist)}
    IN  SumOver([h \in holes |-> EntryOf(hist, h).pointsResult[id]], holes)

\* C20: getPlayerTotalScore(id) is the sum of pointsResult[id] over the
\* entries now in history, 0 for an empty history and for an unknown id;
\* after an edit it counts the replacing result of the hole and no longer
\* the replaced one.
C20_PlayerTotal ==
    /\ [](/\ \A id \in PlayerIds : getPlayerTotalScore(id) = RuleTotal(history, id)
          /\ history = << >> => \A id \in PlayerIds : getPlayerTotalScore(id) = 0
          /\ getPlayerTotalScore("p9") = 0)
    /\ [][ IsCompleteHoleStep =>
              \A id \in PlayerIds :
                  LET old == IF Played(history, currentHole)
                             THEN EntryOf(history, currentHole).pointsResult[id]
                             ELSE 0
                      new == EntryOf(history', currentHole).pointsResult[id]
                  IN  totalScoreOf(history', id) = totalScoreOf(history, id) - old + new
        ]_vars

\* hole 1 was decided, hole 2 drawn, then hole 1 edited at the carry-over 2
\* to a decided hole: the total of p1 is the points of the new entry alone
C20_Witness ==
    /\ calls = 3
    /\ Len(history) = 2
    /\ history[1].holeNumber = 1
    /\ history[1].carryOverMultiplier = 2
    /\ ~history[1].isDraw
    /\ history[2].holeNumber = 2
    /\ history[2].carryOverMultiplier = 1
    /\ history[2].isDraw
    /\ getPlayerTotalScore("p1") = history[1].pointsResult["p1"]
    /\ getPlayerTotalScore("p1") # 0

----------------------------------------------------------------------------
(* Restart and reset *)

\* every player's push usage is 0 / 0
UsageCleared(plrs) ==
    \A i \in 1..Len(plrs) : plrs[i].pushUsageCount = [front9 |-> 0, back9 |-> 0]

\* C21: resetGame and startGame wipe the round in progress (history empty,
\* running multiplier 1, push usage cleared) and leave savedRounds exactly
\* as it was.
C21_RestartKeepsArchive ==
    [][ (resetGame \/ \E startHole \in {1, 10} : startGame(startHole)) =>
            /\ history' = << >>
            /\ nextHoleMultiplier' = 1
            /\ UsageCleared(players')
            /\ savedRounds' = savedRounds
      ]_vars


\* C22: startGame(startHole) for the starting nine.  Afterwards every player
\* has push usage 0 / 0, history is empty, the running multiplier is 1, the
\* status is playing and the cursor is the start hole (1 or 10); the
\* players' ids and names and the settings are those from before the call.
C22_StartGame ==
    [][ \A startHole \in {1, 10} :
            startGame(startHole) =>
                /\ UsageCleared(players')
                /\ history' = << >>
                /\ nextHoleMultiplier' = 1
                /\ gameStatus' = "playing"
                /\ currentHole' = startHole
                /\ Len(players') = Len(players)
                /\ \A i \in 1..Len(players) :
                       /\ players'[i].id = players[i].id
                       /\ players'[i].name = players[i].name
                /\ settings' = settings
      ]_vars

\* hole 9 was played with forced pushes under a push limit of 1, p1 renamed
\* and the round saved; then a round was started on the back nine
C22_Witness ==
    /\ Len(savedRounds) = 1
    /\ savedRounds[1].players[1].pushUsageCount.front9 = 1
    /\ savedRounds[1].players[1].name = "Ann"
    /\ Len(players) = 4
    /\ players[1].name = "Ann"
    /\ UsageCleared(players)
    /\ history = << >>
    /\ currentHole = 10
    /\ gameStatus = "playing"
    /\ nextHoleMultiplier = 1
    /\ settings.maxPushCountPerHalf = 1

----------------------------------------------------------------------------
(* Calls with arguments the input screen would not let through, made to    *)
(* the resolver directly and through completeHole.                          *)

\* the outcome of a call that ended in an exception
Thrown == [thrown |-> "TypeError"]

\* getRawTeamScore and hasBirdie read scores[id].score and
\* scores[id].isBirdie of every team member: a member without an entry in
\* scores is a TypeError, the only exception of the resolver
throwsTypeError(scores, teamA_Ids, teamB_Ids) ==
    \E id \in {teamA_Ids[1], teamA_Ids[2], teamB_Ids[1], teamB_Ids[2]} :
        id \notin DOMAIN scores

\* pairs that overlap or name one player twice
InvalidTeams ==
    { << <<"p1", "p2">>, <<"p2", "p3">> >>,
      << <<"p1", "p1">>, <<"p2", "p3">> >> }

\* score sheets of four or of three players, strokes 0 among them
InvalidScores ==
    UNION { [ids -> [score : 0..1, isBirdie : {FALSE}, pushCount : {0}]] :
               ids \in {PlayerIds, PlayerIds \ {"p4"}} }

InvalidParams ==
    [holeNumber : {1}, par : {4},
     scores : InvalidScores,
     teams : TeamSplits \cup InvalidTeams,
     currentCarryOverMultiplier : {1}]

\* a direct call: the HoleResult, or the exception
ResolveInvalid ==
    /\ result = NoResult
    /\ calls = 0
    /\ result' = IF throwsTypeError(params.scores, params.teams[1], params.teams[2])
                 THEN Thrown
                 ELSE calculateHoleResult(params.holeNumber, params.par, params.scores,
                                          params.teams[1], params.teams[2],
                                          params.currentCarryOverMultiplier)
    /\ UNCHANGED <<params, players, currentHole, gameStatus, history, settings,
                   savedRounds, nextHoleMultiplier, calls>>

\* a call of completeHole: an exception of the resolver leaves before set()
CompleteHoleInvalid ==
    /\ result = NoResult
    /\ calls = 0
    /\ calls' = calls + 1
    /\ IF throwsTypeError(params.scores, params.teams[1], params.teams[2])
       THEN /\ result' = Thrown
            /\ UNCHANGED <<players, currentHole, gameStatus, history, settings,
                           savedRounds, nextHoleMultiplier>>
       ELSE /\ completeHole(params.par, params.scores, params.teams[1],
                            params.teams[2], params.holeNumber)
            /\ result' = result
    /\ UNCHANGED params

InvalidInit ==
    /\ StoreInit
    /\ params \in InvalidParams
    /\ result = NoResult

InvalidNext == ResolveInvalid \/ CompleteHoleInvalid

SpecInvalid == InvalidInit /\ [][InvalidNext]_vars

\* the arguments name fewer than four distinct players with a score, or a
\* stroke count is not positive
InvalidArguments(p) ==
    LET ids == {p.teams[1][1], p.teams[1][2], p.teams[2][1], p.teams[2][2]}
    IN  \/ Cardinality(ids \cap DOMAIN p.scores) < 4
        \/ \E id \in DOMAIN p.scores : p.scores[id].score <= 0

\* C23: a call of calculateHoleResult, made directly or through
\* completeHole, with fewer than four distinct players, with team pairs
\* that are not disjoint or with a stroke count that is not positive fails:
\* there is no HoleResult and the round is what it was before the call.
C23_FailFast ==
    (InvalidArguments(params) /\ (Resolved \/ calls = 1)) =>
        /\ result = Thrown
        /\ history = << >>
        /\ players = INITIAL_PLAYERS
        /\ currentHole = 1
        /\ nextHoleMultiplier = 1

----------------------------------------------------------------------------
(* The last hole of a half *)

\* the step completes hole 9 or 18 for the first time, and no player is
\* over the push limit of that half
FirstLastHoleOfHalf ==
    /\ IsCompleteHoleStep
    /\ currentHole \in {FrontNineLast, LastHole}
    /\ ~Played(history, currentHole)
    /\ \A i \in 1..Len(players) :
           usedInHalf(players[i], currentHole) <= settings.maxPushCountPerHalf

----------------------------------------------------------------------------
(* The carry-over from hole to hole *)

\* C25: whenever a hole h is completed for the first time while history
\* holds an entry for hole h - 1, the carry-over multiplier recorded for h
\* is the nextHoleMultiplier of that entry, whatever completeHole calls
\* (edits of earlier holes among them) and cursor moves came before.
C25_CarryChain ==
    [][ (/\ IsCompleteHoleStep
         /\ ~Played(history, currentHole)
         /\ Played(history, currentHole - 1))
        => EntryOf(history', currentHole).carryOverMultiplier
              = EntryOf(history, currentHole - 1).nextHoleMultiplier
      ]_vars

----------------------------------------------------------------------------
(* Push usage and history *)

\* the pushCount of a player summed over the entries of one half
PushesInHistory(hist, id, front) ==
    LET idx == {i \in 1..Len(hist) :
                   /\ (hist[i].holeNumber <= FrontNineLast) = front
                   /\ id \in DOMAIN hist[i].scores}
    IN  SumOver([i \in idx |-> hist[i].scores[id].pushCount], idx)

\* C26: push usage agrees with history.  In every reachable state front9
\* (back9) of every player is the sum of that player's pushCount over the
\* entries of holes 1 to 9 (10 to 18) now in history, after edits too.
C26_UsageMatchesHistory ==
    \A i \in 1..Len(players) :
        /\ players[i].pushUsageCount.front9
              = PushesInHistory(history, players[i].id, TRUE)
        /\ players[i].pushUsageCount.back9
              = PushesInHistory(history, players[i].id, FALSE)

----------------------------------------------------------------------------
(* Round totals *)

\* C27: the round totals are zero-sum.  The totals getPlayerTotalScore
\* gives for the four players add up to 0, and so do the finalScores of
\* every round saveCurrentRound stored.
C27_TotalsZeroSum ==
    /\ SumOver([id \in PlayerIds |-> getPlayerTotalScore(id)], PlayerIds) = 0
    /\ \A k \in 1..Len(savedRounds) :
           SumOver(savedRounds[k].finalScores, DOMAIN savedRounds[k].finalScores) = 0

\* hole 1 was decided for p1 and p2 and the round saved: p1 is up and p3
\* down in the stored totals and in the running ones, the four of each
\* add up to 0
C27_Witness ==
    /\ Len(savedRounds) = 1
    /\ DOMAIN savedRounds[1].finalScores = PlayerIds
    /\ savedRounds[1].finalScores["p1"] > 0
    /\ savedRounds[1].finalScores["p3"] < 0
    /\ getPlayerTotalScore("p1") > 0
    /\ getPlayerTotalScore("p3") < 0

----------------------------------------------------------------------------
(* The four players *)

\* C28: four players always.  Every state reached by startGame, resetGame,
\* completeHole, goToHole and saveCurrentRound has exactly four players,
\* so that after resetGame and startGame a hole can again be submitted.
C28_FourPlayers ==
    /\ Len(players) = 4
    /\ {players[i].id : i \in 1..Len(players)} = PlayerIds
    /\ \E sub \in Submissions : canSubmit(sub)

----------------------------------------------------------------------------
(* A round played through: after the setup dialog the hole under the       *)
(* cursor is submitted, again and again, until the result screen replaces  *)
(* the input screen.                                                       *)

\* the bound of the played-through round: drawn holes in a round
MaxDraws == 2

\* a decided hole or a drawn one, no push declared
RoundSubmissions ==
    [par : {4}, strokes : {StrokeOf(<<4, 5, 5, 6>>), StrokeOf(<<4, 5, 4, 5>>)},
     pushCounts : {[id \in PlayerIds |-> 0]},
     teamA : {<<"p1", "p2">>}, teamB : {<<"p3", "p4">>}]

\* handleStartGame of the setup dialog, before the first hole
RoundStart ==
    /\ calls = 0
    /\ StartGame

\* handleSubmit on the input screen, which HomeScreen shows while the round
\* is not finished
PlayHole ==
    /\ gameStatus = "playing"
    /\ calls <= LastHole
    /\ \E sub \in RoundSubmissions :
          /\ sub.strokes = StrokeOf(<<4, 5, 4, 5>>) =>
                 Cardinality({i \in 1..Len(history) : history[i].isDraw}) < MaxDraws
          /\ handleSubmit(sub)
    /\ calls' = calls + 1
    /\ UNCHANGED <<params, result>>

RoundNext == RoundStart \/ PlayHole

SpecRound == Init /\ [][RoundNext]_vars

\* the hole the round was started on
StartedOn(h) ==
    IF history = << >> THEN currentHole = h ELSE history[1].holeNumber = h

HolesOf(hist) == {hist[i].holeNumber : i \in 1..Len(hist)}

\* C29: a full round terminates.  From startGame(1), with the hole under
\* the cursor completed again and again, the cursor moves on by one hole
\* per completion (after k < 18 completions it is at hole k + 1, history
\* holds holes 1..k and the next hole can be submitted), and the round is
\* finished after exactly 18 completions, history holding holes 1..18.
C29_FullRound ==
    StartedOn(1) =>
        /\ HolesOf(history) = 1..calls
        /\ Len(history) = calls
        /\ gameStatus \in {"playing", "finished"}
        /\ gameStatus = "playing" =>
               /\ calls < LastHole
               /\ currentHole = calls + 1
               /\ \E sub \in RoundSubmissions : canSubmit(sub)
        /\ gameStatus = "finished" =>
               /\ calls = LastHole
               /\ currentHole = LastHole

\* a round from hole 1 to the result screen: 18 entries, holes 17 drawn and
\* 18 decided at the carry-over 2, all pushes forced on holes 9 and 18
C29_Witness ==
    /\ gameStatus = "finished"
    /\ calls = LastHole
    /\ HolesOf(history) = 1..LastHole
    /\ history[17].isDraw
    /\ history[18].carryOverMultiplier = 2
    /\ ~history[18].isDraw
    /\ \A i \in 1..Len(players) :
           players[i].pushUsageCount = [front9 |-> 2, back9 |-> 2]


\* C30: a finished round is complete.  When the status is finished, history
\* holds an entry for every hole 1..18, whichever nine the round was
\* started on.
C30_FinishedIsComplete ==
    gameStatus = "finished" => HolesOf(history) = 1..LastHole

----------------------------------------------------------------------------
(* The finished round *)

----------------------------------------------------------------------------
(* The course walked with the arrows: a round is started, holes are        *)
(* submitted and the cursor is moved by the two arrows of the input screen *)
(* for as long as that screen is shown.                                    *)

\* the bound of the walked course: completeHole calls, enough for the nine
\* holes from 10 to 18 and an edit
MaxCourseCalls == 10

\* a decided hole; the pushes are the hydrated ones on a saved hole, none
\* on a new hole
CourseSubmissions ==
    [par : {4}, strokes : {StrokeOf(<<4, 5, 5, 6>>)},
     pushCounts : IF isEditingExisting THEN {savedPushCounts}
                  ELSE {[id \in PlayerIds |-> 0]},
     teamA : {<<"p1", "p2">>}, teamB : {<<"p3", "p4">>}]

CourseSubmit ==
    /\ inputScreenShown
    /\ calls < MaxCourseCalls
    /\ \E sub \in CourseSubmissions : handleSubmit(sub)
    /\ calls' = calls + 1
    /\ UNCHANGED <<params, result>>

CourseNext ==
    \/ RoundStart
    \/ CourseSubmit
    \/ HandlePrevHole
    \/ HandleNextHoleNav

SpecCourse == Init /\ [][CourseNext]_vars

----------------------------------------------------------------------------
(* The archive filled: holes are submitted, the cursor moved and the round *)
(* saved more than once.                                                   *)

\* handleSubmit, within the budget of the archive model
SavesSubmit ==
    /\ inputScreenShown
    /\ calls < MaxArchiveCalls
    /\ \E sub \in RoundSubmissions : handleSubmit(sub)
    /\ calls' = calls + 1
    /\ UNCHANGED <<params, result>>

\* handleSaveGame, as many stored rounds as the budget has calls
SavesSave ==
    /\ Len(savedRounds) < MaxArchiveCalls
    /\ \E now \in Times : saveCurrentRound(now)
    /\ UNCHANGED <<params, result, calls>>

SavesNext ==
    \/ SavesSubmit
    \/ GoToHole
    \/ SavesSave

SpecSaves == Init /\ [][SavesNext]_vars


\* C33: saveCurrentRound.  With an empty history it changes nothing;
\* otherwise it puts exactly one round in front of savedRounds, holding the
\* current players, history and cursor and, for every player, finalScores
\* equal to getPlayerTotalScore; the round in progress (history, players,
\* cursor, running multiplier, status) and the rounds stored before are
\* left as they were.
C33_SaveFrame ==
    [][ (\E now \in Times : saveCurrentRound(now)) =>
            /\ history # << >>
            /\ Len(savedRounds') = Len(savedRounds) + 1
            /\ Tail(savedRounds') = savedRounds
            /\ Head(savedRounds').players = players
            /\ Head(savedRounds').history = history
            /\ Head(savedRounds').currentHole = currentHole
            /\ DOMAIN Head(savedRounds').finalScores = PlayerIds
            /\ \A id \in PlayerIds :
                   Head(savedRounds').finalScores[id] = RuleTotal(history, id)
            /\ history' = history
            /\ players' = players
            /\ currentHole' = currentHole
            /\ nextHoleMultiplier' = nextHoleMultiplier
            /\ gameStatus' = gameStatus
      ]_vars

\* the round was saved after its first hole and again after its second: the
\* archive holds the later round in front of the earlier one, and the round
\* in progress is the one stored last
C33_Witness ==
    /\ Len(savedRounds) = 2
    /\ Len(savedRounds[2].history) = 1
    /\ Len(savedRounds[1].history) = 2
    /\ savedRounds[1].history = history
    /\ savedRounds[1].players = players
    /\ savedRounds[1].currentHole = currentHole
    /\ savedRounds[1].finalScores["p1"] # savedRounds[2].finalScores["p1"]

----------------------------------------------------------------------------
(* screens/ScoreInputScreen.tsx: the form of the input screen.  The screen *)
(* holds a par, the strokes typed so far and a side for every player; the  *)
(* form is drawn at the start and submitted once.                          *)

\* par === null: no par is selected
NoPar == 0

\* scores lacks the key of a player whose field is empty; 0 is a stroke
\* count that is typed but not positive
Forms ==
    [par : {NoPar, 4},
     scores : UNION {[ids -> 0..MaxStroke] : ids \in SUBSET PlayerIds},
     pushCounts : {[id \in PlayerIds |-> 0]},
     teamAssignments : [PlayerIds -> {"A", "B"}]]

\* players.filter(p => teamAssignments[p.id] === side)
teamOf(form, side) ==
    SelectSeq(players, LAMBDA p : form.teamAssignments[p.id] = side)

\* variant: the par is not looked at
canSubmitForm_NoParCheck(form) ==
    LET isValidTeams    == Len(teamOf(form, "A")) = 2 /\ Len(teamOf(form, "B")) = 2
        isScoresEntered == \A i \in 1..Len(players) :
                               /\ players[i].id \in DOMAIN form.scores
                               /\ form.scores[players[i].id] > 0
    IN  isValidTeams /\ isScoresEntered

\* canSubmit = isValidTeams && isScoresEntered && par !== null
canSubmitForm(form) ==
    LET isValidTeams    == Len(teamOf(form, "A")) = 2 /\ Len(teamOf(form, "B")) = 2
        isScoresEntered == \A i \in 1..Len(players) :
                               /\ players[i].id \in DOMAIN form.scores
                               /\ form.scores[players[i].id] > 0
    IN  isValidTeams /\ isScoresEntered /\ form.par # NoPar

\* handleSubmit: nothing unless canSubmit, else completeHole for the hole
\* under the cursor with the ScoreInput of every player
handleSubmitForm(form) ==
    IF ~canSubmitForm(form)
    THEN UNCHANGED <<players, currentHole, gameStatus, history, settings,
                     savedRounds, nextHoleMultiplier, calls>>
    ELSE LET teamA       == teamOf(form, "A")
             teamB       == teamOf(form, "B")
             scoreInputs == [id \in {players[i].id : i \in 1..Len(players)} |->
                                LET s == IF id \in DOMAIN form.scores
                                         THEN form.scores[id] ELSE 0
                                IN  [score     |-> s,
                                     isBirdie  |-> s < form.par,
                                     pushCount |-> form.pushCounts[id]]]
         IN  /\ completeHole(form.par, scoreInputs,
                             <<teamA[1].id, teamA[2].id>>,
                             <<teamB[1].id, teamB[2].id>>, currentHole)
             /\ calls' = calls + 1

HandleSubmitForm ==
    /\ inputScreenShown
    /\ calls = 0
    /\ handleSubmitForm(params)
    /\ UNCHANGED <<params, result>>

FormInit ==
    /\ StoreInit
    /\ params \in Forms
    /\ result = NoResult

FormNext == HandleSubmitForm

SpecForm == FormInit /\ [][FormNext]_vars

\* the gate as the claim words it: a par is selected, every player has
\* strokes > 0 entered, exactly two players are on A and two on B
RuleFormValid(form) ==
    /\ form.par # NoPar
    /\ \A id \in PlayerIds : id \in DOMAIN form.scores /\ form.scores[id] > 0
    /\ Cardinality({id \in PlayerIds : form.teamAssignments[id] = "A"}) = 2
    /\ Cardinality({id \in PlayerIds : form.teamAssignments[id] = "B"}) = 2

\* C35: the gate of the input screen.  completeHole is called only when a
\* par is selected, every player has strokes > 0 entered and the sides are
\* two players on A and two on B; submitting any other form leaves the
\* round as it was.
C35_ValidationGate ==
    /\ ~RuleFormValid(params) =>
           /\ calls = 0
           /\ history = << >>
           /\ players = INITIAL_PLAYERS
           /\ currentHole = 1
           /\ gameStatus = "playing"
           /\ nextHoleMultiplier = 1
    /\ calls = 1 =>
           /\ RuleFormValid(params)
           /\ Len(history) = 1
           /\ history[1].par = params.par
           /\ \A id \in PlayerIds : history[1].scores[id].score = params.scores[id]
           /\ {history[1].teamA_Ids[1], history[1].teamA_Ids[2]}
                 = {id \in PlayerIds : params.teamAssignments[id] = "A"}

\* a complete form with p1 and p3 on side A was submitted and is hole 1
C35_Witness ==
    /\ calls = 1
    /\ params.par = 4
    /\ params.teamAssignments["p1"] = "A"
    /\ params.teamAssignments["p3"] = "A"
    /\ history[1].teamA_Ids = <<"p1", "p3">>
    /\ history[1].teamB_Ids = <<"p2", "p4">>
    /\ currentHole = 2

----------------------------------------------------------------------------
(* store/gameStore.ts: getRecommendedPairs.  One hole is submitted with    *)
(* any of the stroke rows, the cursor is moved by the arrows, and the      *)
(* screen asks for the pairs of the hole under the cursor.                 *)

\* the key of the honor order: the strokes on the hole, 999 without a score
honorKey(hole, p) ==
    IF p.id \in DOMAIN hole.scores THEN hole.scores[p.id].score ELSE 999

RECURSIVE InsertByScore(_, _, _)
\* one step of the stable sort: p goes behind every player with a key that
\* is not larger
InsertByScore(sorted, p, hole) ==
    IF sorted = << >> THEN <<p>>
    ELSE IF honorKey(hole, p) < honorKey(hole, Head(sorted)) THEN <<p>> \o sorted
    ELSE <<Head(sorted)>> \o InsertByScore(Tail(sorted), p, hole)

RECURSIVE SortByScore(_, _)
\* rankedPlayers.sort((a, b) => scoreA - scoreB), a stable sort
SortByScore(seq, hole) ==
    IF seq = << >> THEN << >>
    ELSE InsertByScore(SortByScore(SubSeq(seq, 1, Len(seq) - 1), hole),
                       seq[Len(seq)], hole)

\* variant: the honor order is taken from the last entry of history
honorOrder_LastEntry(plrs, hist, holeNumber) ==
    IF holeNumber > 1 /\ Len(hist) > 0
    THEN SortByScore(plrs, hist[Len(hist)])
    ELSE plrs

\* step 1 of getRecommendedPairs: the players ordered by the entry of the
\* hole before, as they are when there is none
honorOrder(plrs, hist, holeNumber) ==
    IF holeNumber > 1 /\ Len(hist) > 0 /\ findIndex(hist, holeNumber - 1) # 0
    THEN SortByScore(plrs, hist[findIndex(hist, holeNumber - 1)])
    ELSE plrs

\* getRecommendedPairs: a fixed answer for fewer than four players, else
\* the honor order cut by the pattern of holeNumber % 3
getRecommendedPairs(holeNumber) ==
    IF Len(players) < 4
    THEN [teamA |-> <<"1", "2">>, teamB |-> <<"3", "4">>]
    ELSE LET p   == honorOrder(players, history, holeNumber)
             mod == holeNumber % 3
         IN  IF mod = 1
             THEN [teamA |-> <<p[1].id, p[2].id>>, teamB |-> <<p[3].id, p[4].id>>]
             ELSE IF mod = 2
             THEN [teamA |-> <<p[1].id, p[3].id>>, teamB |-> <<p[2].id, p[4].id>>]
             ELSE [teamA |-> <<p[1].id, p[4].id>>, teamB |-> <<p[2].id, p[3].id>>]

\* the bound of the pairing model: holes submitted
MaxPairCalls == 1

\* the strokes of p1..p4 on the hole before: every row of 4s and 5s, and
\* two rows of three and four different counts
PairStrokeRows ==
    {<<a, b, c, d>> : a \in {4, 5}, b \in {4, 5}, c \in {4, 5}, d \in {4, 5}}
        \cup {<<6, 5, 4, 3>>, <<5, 6, 3, 5>>}

PairsStart ==
    /\ result = NoResult
    /\ RoundStart

PairsSubmit ==
    /\ result = NoResult
    /\ inputScreenShown
    /\ calls < MaxPairCalls
    /\ \E row \in PairStrokeRows :
          handleSubmit([par |-> 4, strokes |-> StrokeOf(row),
                        pushCounts |-> [id \in PlayerIds |-> 0],
                        teamA |-> <<"p1", "p2">>, teamB |-> <<"p3", "p4">>])
    /\ calls' = calls + 1
    /\ UNCHANGED <<params, result>>

PairsPrev ==
    /\ result = NoResult
    /\ HandlePrevHole

PairsNext ==
    /\ result = NoResult
    /\ HandleNextHoleNav

\* the hydrate effect on a hole that is not saved
Recommend ==
    /\ result = NoResult
    /\ inputScreenShown
    /\ ~isEditingExisting
    /\ result' = getRecommendedPairs(currentHole)
    /\ UNCHANGED <<params, players, currentHole, gameStatus, history, settings,
                   savedRounds, nextHoleMultiplier, calls>>

PairsNextStep ==
    \/ PairsStart
    \/ PairsSubmit
    \/ PairsPrev
    \/ PairsNext
    \/ Recommend

SpecPairs == Init /\ [][PairsNextStep]_vars


\* the strokes the rule orders by: those of player i of the list on the hole
\* before h, the same for everybody when that hole is not in history
RuleKey(h) ==
    IF h > 1 /\ (h - 1) \in HolesOf(history)
    THEN LET k == CHOOSE n \in 1..Len(history) : history[n].holeNumber = h - 1
         IN  [i \in 1..Len(players) |-> history[k].scores[players[i].id].score]
    ELSE [i \in 1..Len(players) |-> 0]

\* p0..p3 of the rule: the player with k players in front, those with fewer
\* strokes and those with the same strokes and an earlier place in the list
RuleOrder(h) ==
    LET key  == RuleKey(h)
        rank == [i \in 1..Len(players) |->
                    Cardinality({j \in 1..Len(players) :
                                    \/ key[j] < key[i]
                                    \/ key[j] = key[i] /\ j < i})]
    IN  [k \in 0..3 |-> players[CHOOSE i \in 1..Len(players) : rank[i] = k].id]

RulePairs(h) ==
    LET p == RuleOrder(h)
    IN  IF h % 3 = 1
        THEN [teamA |-> <<p[0], p[1]>>, teamB |-> <<p[2], p[3]>>]
        ELSE IF h % 3 = 2
        THEN [teamA |-> <<p[0], p[2]>>, teamB |-> <<p[1], p[3]>>]
        ELSE [teamA |-> <<p[0], p[3]>>, teamB |-> <<p[1], p[2]>>]

IsPartition(pairs) ==
    /\ {pairs.teamA[1], pairs.teamA[2]} \cup {pairs.teamB[1], pairs.teamB[2]}
           = {players[i].id : i \in 1..Len(players)}
    /\ Cardinality({pairs.teamA[1], pairs.teamA[2],
                    pairs.teamB[1], pairs.teamB[2]}) = 4

\* C36: with four players, getRecommendedPairs(h) orders the players
\* ascending by their strokes on hole h - 1, ties in player-list order (the
\* player-list order itself when h = 1 or hole h - 1 is not in history), and
\* pairs them (p0,p1) vs (p2,p3) when h mod 3 = 1, (p0,p2) vs (p1,p3) when
\* h mod 3 = 2 and (p0,p3) vs (p1,p2) when h mod 3 = 0; the two pairs are a
\* partition of the four players.  It holds of every hole of the course in
\* every state, and of the pairs the screen was given.
C36_RecommendedPairs ==
    Len(players) = 4 =>
        /\ \A h \in 1..LastHole :
              LET pairs == getRecommendedPairs(h)
              IN  pairs = RulePairs(h) /\ IsPartition(pairs)
        /\ result # NoResult => result = RulePairs(currentHole)

\* the screen was given pairs for a hole whose predecessor is in history
\* with two players on the same strokes, in an order that is not the list's
C36_Witness ==
    /\ result # NoResult
    /\ Len(players) = 4
    /\ currentHole > 1
    /\ (currentHole - 1) \in HolesOf(history)
    /\ \E i, j \in 1..4 : i < j /\ RuleKey(currentHole)[i] = RuleKey(currentHole)[j]
    /\ \E i, j \in 1..4 : i < j /\ RuleKey(currentHole)[i] > RuleKey(currentHole)[j]

----------------------------------------------------------------------------
(* utils/golfLogic.ts: calculateCurrentHoleRate, the rate shown while the  *)
(* scores of a hole are typed in.                                          *)

\* variant: the live rate leaves the birdie out
calculateCurrentHoleRate_NoBirdie(currentCarryOverMultiplier, scores) ==
    LET carryOverCount == Max(0, currentCarryOverMultiplier - 1)
        totalPushCount == SumOver([id \in DOMAIN scores |-> scores[id].pushCount],
                                  DOMAIN scores)
        count          == carryOverCount + totalPushCount
    IN  IF count = 0 THEN 1 ELSE count * 2

calculateCurrentHoleRate(currentCarryOverMultiplier, scores) ==
    LET carryOverCount == Max(0, currentCarryOverMultiplier - 1)
        totalPushCount == SumOver([id \in DOMAIN scores |-> scores[id].pushCount],
                                  DOMAIN scores)
        hasAnyBirdie   == \E id \in DOMAIN scores : scores[id].isBirdie
        count          == carryOverCount + totalPushCount + (IF hasAnyBirdie THEN 1 ELSE 0)
    IN  IF count = 0 THEN 1 ELSE count * 2

\* C37: the live rate equals the applied rate.  For every carry-over
\* multiplier c >= 1 and every scores map, calculateCurrentHoleRate(c, scores)
\* is the appliedMultiplier that calculateHoleResult returned for the same c
\* and scores, whatever the teams.
C37_LiveRateIsApplied ==
    Resolved =>
        calculateCurrentHoleRate(params.currentCarryOverMultiplier, params.scores)
            = result.appliedMultiplier

\* a resolved hole with a carry-over, a push and a birdie
C37_Witness ==
    /\ Resolved
    /\ params.currentCarryOverMultiplier > 1
    /\ \E id \in PlayerIds : params.scores[id].pushCount > 0
    /\ \E id \in PlayerIds : params.scores[id].isBirdie
    /\ params.teams[1] # <<"p1", "p2">>
    /\ result.appliedMultiplier
           = calculateCurrentHoleRate(params.currentCarryOverMultiplier, params.scores)
    /\ result.appliedMultiplier > 2

----------------------------------------------------------------------------
(* Direct calls of the resolver on any hole of a half and any par.  Only   *)
(* the first player declares pushes, which keeps the arguments few.        *)

HoleNumbers == {1, FrontNineLast, LastHole}
Pars == {3, 4, 5}

HoleParParams ==
    [holeNumber : HoleNumbers, par : Pars,
     scores : {s \in [PlayerIds -> ScoreInputs] :
                  \A id \in PlayerIds \ {"p1"} : s[id].pushCount = 0},
     teams : TeamSplits,
     currentCarryOverMultiplier : 1..MaxCarry]

HoleParInit ==
    /\ StoreInit
    /\ params \in HoleParParams
    /\ result = NoResult

HoleParNext == Resolve

SpecHolePar == HoleParInit /\ [][HoleParNext]_vars

\* what the claim compares of two results
Outcome(r) ==
    [isDraw |-> r.isDraw, appliedMultiplier |-> r.appliedMultiplier,
     pointsResult |-> r.pointsResult, nextHoleMultiplier |-> r.nextHoleMultiplier]

\* C38: the resolver ignores hole number and par.  A call returns the same
\* isDraw, appliedMultiplier, pointsResult and nextHoleMultiplier as every
\* call that differs from it only in holeNumber and par: same scores with
\* the same stored isBirdie flags, same teams, same carry-over.
C38_IgnoresHoleAndPar ==
    Resolved =>
        \A h \in HoleNumbers, par \in Pars :
            Outcome(calculateHoleResult(h, par, params.scores,
                                        params.teams[1], params.teams[2],
                                        params.currentCarryOverMultiplier))
                = Outcome(result)

\* a resolved last hole of a half on a par 3, where a player one under a
\* par 4 carries no birdie flag and a player on the par carries one
C38_Witness ==
    /\ Resolved
    /\ params.holeNumber \in {FrontNineLast, LastHole}
    /\ params.par = 3
    /\ \E id \in PlayerIds :
          params.scores[id].score = 3 /\ params.scores[id].isBirdie
    /\ \E id \in PlayerIds :
          params.scores[id].score = 2 /\ ~params.scores[id].isBirdie
    /\ ~result.isDraw
    /\ result.holeNumber = params.holeNumber


\* a pair with its two ids in the other order
Flip(ids) == <<ids[2], ids[1]>>

\* the outcome of the resolver on the arguments of the call with other teams
OutcomeWith(teamA_Ids, teamB_Ids) ==
    Outcome(calculateHoleResult(params.holeNumber, params.par, params.scores,
                                teamA_Ids, teamB_Ids,
                                params.currentCarryOverMultiplier))

\* C39: team symmetry.  With teamA and teamB in each other's role, or with
\* the two ids of a pair in the other order, every player's pointsResult
\* and the hole's isDraw, appliedMultiplier and nextHoleMultiplier are what
\* the call returned.
C39_TeamSymmetry ==
    Resolved =>
        /\ OutcomeWith(params.teams[2], params.teams[1]) = Outcome(result)
        /\ OutcomeWith(Flip(params.teams[1]), params.teams[2]) = Outcome(result)
        /\ OutcomeWith(params.teams[1], Flip(params.teams[2])) = Outcome(result)
        /\ OutcomeWith(Flip(params.teams[2]), Flip(params.teams[1])) = Outcome(result)

\* a decided hole: the players of a pair differ in strokes, one side has a
\* birdie, and points were paid
C39_Witness ==
    /\ Resolved
    /\ ~result.isDraw
    /\ params.scores[params.teams[1][1]].score > params.scores[params.teams[1][2]].score
    /\ params.scores[params.teams[2][1]].score < params.scores[params.teams[2][2]].score
    /\ hasBirdie(params.scores, params.teams[1])
    /\ ~hasBirdie(params.scores, params.teams[2])
    /\ result.pointsResult[params.teams[1][1]] > 0
    /\ OutcomeWith(params.teams[2], params.teams[1]) = Outcome(result)

====
